---- MODULE Spec2Model ----
(***************************************************************************)
(* Model of ltv-calculator: the LTVCalculator class (src/libs/index.ts)    *)
(* and the standalone formula functions (src/unnamed/part_000).            *)
(*                                                                         *)
(* A JavaScript number is modelled as an exact extended rational           *)
(* [n |-> numerator, d |-> denominator] in lowest terms with d >= 0:       *)
(*   d > 0          a finite number n/d                                    *)
(*   n = 1,  d = 0   Infinity                                               *)
(*   n = -1, d = 0   -Infinity                                              *)
(*   n = 0,  d = 0   NaN                                                    *)
(* The operators below follow IEEE-754 for the special values (x/0,        *)
(* Infinity * 0, Infinity - Infinity, ...).  Rounding and overflow of      *)
(* binary64 are not modelled, and -0 is identified with 0.                 *)
(***************************************************************************)
EXTENDS Integers, Sequences, FiniteSets, TLC

VARIABLES arpu, averageDuration, ltv, churnRate, call, ret, probe, first, input

fields == <<arpu, averageDuration, ltv, churnRate>>
vars == <<arpu, averageDuration, ltv, churnRate, call, ret, probe, first, input>>

(***************************************************************************)
(* Bounds of the model.                                                    *)
(***************************************************************************)
\* numeric arguments of the instance methods range over 0..MaxNum
MaxNum == 1
\* customer counts and MRR figures of the churn / retention inputs: 0..MaxAmount
MaxAmount == 2
\* subscription amounts: 0..MaxPrice
MaxPrice == 2
\* longest subscription list
MaxSubs == 3
\* longest cohort list and longest customer revenue list
MaxLen == 3
\* months of cohort data points: 0..MaxMonth
MaxMonth == 2
\* customers of a cohort data point, revenue of a customer: 0..MaxCustomers
MaxCustomers == 2
\* numbers in the argument of a calculate* method called on a used instance:
\* 0..MaxArg
MaxArg == 1
\* longest list passed to a calculate* method called on a used instance
MaxArgLen == 2

(***************************************************************************)
(* Numbers.                                                                *)
(***************************************************************************)
Abs(k) == IF k < 0 THEN -k ELSE k

Sign(k) == IF k < 0 THEN -1 ELSE IF k > 0 THEN 1 ELSE 0

RECURSIVE GCD(_, _)
GCD(a, b) == IF b = 0 THEN a ELSE GCD(b, a % b)

\* the number n/d, in lowest terms (d = 0 gives Infinity, -Infinity or NaN)
Frac(n, d) ==
    IF d = 0 THEN [n |-> Sign(n), d |-> 0]
    ELSE LET g == GCD(Abs(n), Abs(d))
             s == Sign(d)
         IN  [n |-> (s * n) \div g, d |-> (s * d) \div g]

Num(k) == [n |-> k, d |-> 1]

Zero == Num(0)
Infinity == [n |-> 1, d |-> 0]
NaN == [n |-> 0, d |-> 0]

\* an omitted argument or field
Undef == [undefined |-> TRUE]

\* the value of a method that returns `this` for chaining
This == [this |-> TRUE]

\* no value recorded yet
None == [none |-> TRUE]

IsNaN(x) == x.n = 0 /\ x.d = 0
IsFinite(x) == x.d > 0

\* x + y
Add(x, y) ==
    IF IsNaN(x) \/ IsNaN(y) THEN NaN
    ELSE IF x.d = 0 /\ y.d = 0 THEN (IF x.n = y.n THEN x ELSE NaN)
    ELSE IF x.d = 0 THEN x
    ELSE IF y.d = 0 THEN y
    ELSE Frac(x.n * y.d + y.n * x.d, x.d * y.d)

Neg(x) == [n |-> -x.n, d |-> x.d]

\* x - y
Sub(x, y) == Add(x, Neg(y))

\* x * y  (Infinity * 0 = NaN)
Mul(x, y) == Frac(x.n * y.n, x.d * y.d)

\* 1 / y  (1 / 0 = Infinity, 1 / Infinity = 0)
Recip(y) == Frac(y.d, y.n)

\* x / y  (x / 0 = +-Infinity for x # 0, 0 / 0 = NaN, x / Infinity = 0)
Div(x, y) == Mul(x, Recip(y))

\* JavaScript truthiness of a number or undefined: undefined, 0 and NaN are falsy
Truthy(x) == x # Undef /\ x.n # 0

\* a || b
OrElse(a, b) == IF Truthy(a) THEN a ELSE b

\* a && b, as a condition
AndAlso(a, b) == Truthy(a) /\ Truthy(b)

(***************************************************************************)
(* class LTVCalculator: the instance is the record of its private fields.  *)
(* Each method maps the instance to [self |-> instance after, ret |-> value *)
(* returned].                                                              *)
(***************************************************************************)
defaultNumberType == "percentage"

\* the instance as a record
Self == [arpu |-> arpu, averageDuration |-> averageDuration,
         ltv |-> ltv, churnRate |-> churnRate]

\* new LTVCalculator()
NewLTVCalculator == [arpu |-> Zero, averageDuration |-> Zero,
                     ltv |-> Zero, churnRate |-> Zero]

setARPU(self, v) ==
    [self |-> [self EXCEPT !.arpu = v], ret |-> This]

calcARPU(self, sales, user) ==
    LET a == Div(sales, user)
    IN  [self |-> setARPU(self, a).self, ret |-> This]

getARPU(self, sales, user) ==
    LET s1 == IF AndAlso(sales, user) THEN calcARPU(self, sales, user).self ELSE self
    IN  [self |-> s1, ret |-> s1.arpu]

setChurnRate(self, rate) ==
    [self |-> [self EXCEPT !.churnRate = rate], ret |-> This]

getChurnRate(self) ==
    [self |-> self, ret |-> self.churnRate]

calcAverageDurationByChurnRate(self, rateArg, typeArg) ==
    LET type == IF typeArg = "undefined" THEN defaultNumberType ELSE typeArg
        rate == OrElse(rateArg, self.churnRate)
        dur  == IF type = "percentage" THEN Div(Num(1), Div(rate, Num(100)))
                ELSE Div(Num(1), rate)
    IN  [self |-> [self EXCEPT !.averageDuration = dur], ret |-> This]

getAverageDurationByChurnRate(self, rateArg, typeArg) ==
    LET s1 == IF Truthy(rateArg)
              THEN calcAverageDurationByChurnRate(self, rateArg, typeArg).self
              ELSE self
    IN  [self |-> s1, ret |-> s1.averageDuration]

setAverageDuration(self, duration) ==
    [self |-> [self EXCEPT !.averageDuration = duration], ret |-> This]

calcLTV(self, durArg, arpuArg) ==
    LET v == Mul(OrElse(durArg, self.averageDuration), OrElse(arpuArg, self.arpu))
    IN  [self |-> [self EXCEPT !.ltv = v], ret |-> This]

getLTV(self, durArg, arpuArg) ==
    LET s1 == calcLTV(self, durArg, arpuArg).self
    IN  [self |-> s1, ret |-> s1.ltv]

(***************************************************************************)
(* The standalone formula functions.                                       *)
(***************************************************************************)
calculateARPU(sales, users) == Div(sales, users)

calculateAverageDuration(rate, typeArg) ==
    LET type == IF typeArg = "undefined" THEN "percentage" ELSE typeArg
    IN  IF type = "percentage" THEN Div(Num(1), Div(rate, Num(100)))
        ELSE Div(Num(1), rate)

calculateLTV(a, dur) == Mul(a, dur)

\* Subscription interval conversion constants
MONTHS_PER_YEAR == 12
WEEKS_PER_YEAR == 52
DAYS_PER_YEAR == 365

\* the value of an optional field: its default when the field is omitted
Default(v, dflt) == IF v = Undef THEN dflt ELSE v

\* calculateMRR_step with an unknown interval billed as a month
calculateMRR_step_unknownAsMonth(total, sub) ==
    CASE sub.interval = "year"  -> Add(total, Div(sub.amount, Num(MONTHS_PER_YEAR)))
      [] sub.interval = "week"  ->
             Add(total, Div(Mul(sub.amount, Num(WEEKS_PER_YEAR)), Num(MONTHS_PER_YEAR)))
      [] sub.interval = "day"   ->
             Add(total, Div(Mul(sub.amount, Num(DAYS_PER_YEAR)), Num(MONTHS_PER_YEAR)))
      [] OTHER -> Add(total, sub.amount)

\* the callback of calculateMRR's reduce
calculateMRR_step(total, sub) ==
    CASE sub.interval = "month" -> Add(total, sub.amount)
      [] sub.interval = "year"  -> Add(total, Div(sub.amount, Num(MONTHS_PER_YEAR)))
      [] sub.interval = "week"  ->
             Add(total, Div(Mul(sub.amount, Num(WEEKS_PER_YEAR)), Num(MONTHS_PER_YEAR)))
      [] sub.interval = "day"   ->
             Add(total, Div(Mul(sub.amount, Num(DAYS_PER_YEAR)), Num(MONTHS_PER_YEAR)))
      [] OTHER -> total

\* subscriptions.reduce(callback, total), left to right
RECURSIVE calculateMRR_reduce(_, _)
calculateMRR_reduce(subscriptions, total) ==
    IF subscriptions = <<>> THEN total
    ELSE calculateMRR_reduce(Tail(subscriptions),
                             calculateMRR_step(total, Head(subscriptions)))

calculateMRR(subscriptions) == calculateMRR_reduce(subscriptions, Zero)

calculateARR(subscriptions) == Mul(calculateMRR(subscriptions), Num(MONTHS_PER_YEAR))

calculateCustomerChurnRate(in) ==
    IF in.startCustomers = Zero THEN Zero
    ELSE Mul(Div(in.churnedCustomers, in.startCustomers), Num(100))

\* calculateRevenueChurnRate with contractionMRR left out
calculateRevenueChurnRate_churnedOnly(in) ==
    IF in.startMRR = Zero THEN Zero
    ELSE Mul(Div(in.churnedMRR, in.startMRR), Num(100))

calculateRevenueChurnRate(in) ==
    LET contractionMRR == Default(in.contractionMRR, Zero)
    IN  IF in.startMRR = Zero THEN Zero
        ELSE Mul(Div(Add(in.churnedMRR, contractionMRR), in.startMRR), Num(100))

\* calculateNRR without its startMRR guard, and with newMRR counted
calculateNRR_noGuard(in) ==
    LET expansionMRR == Default(in.expansionMRR, Zero)
        contractionMRR == Default(in.contractionMRR, Zero)
        endMRR == Sub(Sub(Add(in.startMRR, expansionMRR), contractionMRR), in.churnedMRR)
    IN  Mul(Div(endMRR, in.startMRR), Num(100))

calculateNRR_withNewMRR(in) ==
    LET expansionMRR == Default(in.expansionMRR, Zero)
        contractionMRR == Default(in.contractionMRR, Zero)
        endMRR == Sub(Sub(Add(Add(in.startMRR, Default(in.newMRR, Zero)), expansionMRR),
                          contractionMRR), in.churnedMRR)
    IN  IF in.startMRR = Zero THEN Zero
        ELSE Mul(Div(endMRR, in.startMRR), Num(100))

calculateNRR(in) ==
    LET expansionMRR == Default(in.expansionMRR, Zero)
        contractionMRR == Default(in.contractionMRR, Zero)
        endMRR == Sub(Sub(Add(in.startMRR, expansionMRR), contractionMRR), in.churnedMRR)
    IN  IF in.startMRR = Zero THEN Zero
        ELSE Mul(Div(endMRR, in.startMRR), Num(100))

\* calculateGRR with expansionMRR counted
calculateGRR_withExpansion(in) ==
    LET contractionMRR == Default(in.contractionMRR, Zero)
        retainedMRR == Sub(Sub(Add(in.startMRR, Default(in.expansionMRR, Zero)),
                               contractionMRR), in.churnedMRR)
    IN  IF in.startMRR = Zero THEN Zero
        ELSE Mul(Div(retainedMRR, in.startMRR), Num(100))

calculateGRR(in) ==
    LET contractionMRR == Default(in.contractionMRR, Zero)
        retainedMRR == Sub(Sub(in.startMRR, contractionMRR), in.churnedMRR)
    IN  IF in.startMRR = Zero THEN Zero
        ELSE Mul(Div(retainedMRR, in.startMRR), Num(100))

\* the comparator (a, b) => a.month - b.month
compareMonth(a, b) == Sub(a.month, b.month)

\* SortInsert that puts e before the elements it compares equal to
RECURSIVE SortInsert_unstable(_, _)
SortInsert_unstable(sorted, e) ==
    IF sorted = <<>> THEN <<e>>
    ELSE IF compareMonth(e, Head(sorted)).n <= 0 THEN <<e>> \o sorted
    ELSE <<Head(sorted)>> \o SortInsert_unstable(Tail(sorted), e)

\* e put into the sorted sequence: before the first element it compares less than
RECURSIVE SortInsert(_, _)
SortInsert(sorted, e) ==
    IF sorted = <<>> THEN <<e>>
    ELSE IF compareMonth(e, Head(sorted)).n < 0 THEN <<e>> \o sorted
    ELSE <<Head(sorted)>> \o SortInsert(Tail(sorted), e)

\* no sort at all
SortByMonth_unsorted(cohorts) == cohorts

\* [...cohorts].sort(comparator): Array.prototype.sort is stable, elements that
\* compare equal keep their order
RECURSIVE SortByMonth(_)
SortByMonth(cohorts) ==
    IF cohorts = <<>> THEN <<>>
    ELSE SortInsert(SortByMonth(SubSeq(cohorts, 1, Len(cohorts) - 1)),
                    cohorts[Len(cohorts)])

calculateCohortRetention(cohorts) ==
    IF Len(cohorts) = 0 THEN <<>>
    ELSE LET sortedCohorts == SortByMonth(cohorts)
             baseCustomers == sortedCohorts[1].customers
         IN  IF baseCustomers = Zero
             THEN [i \in 1..Len(sortedCohorts) |-> Zero]
             ELSE [i \in 1..Len(sortedCohorts) |->
                       Mul(Div(sortedCohorts[i].customers, baseCustomers), Num(100))]

\* customerRevenues.reduce((sum, revenue) => sum + revenue, sum)
RECURSIVE calculateHistoricalLTV_reduce(_, _)
calculateHistoricalLTV_reduce(customerRevenues, sum) ==
    IF customerRevenues = <<>> THEN sum
    ELSE calculateHistoricalLTV_reduce(Tail(customerRevenues),
                                       Add(sum, Head(customerRevenues)))

\* calculateHistoricalLTV without its guard for the empty array
calculateHistoricalLTV_noGuard(customerRevenues) ==
    Div(calculateHistoricalLTV_reduce(customerRevenues, Zero),
        Num(Len(customerRevenues)))

calculateHistoricalLTV(customerRevenues) ==
    IF Len(customerRevenues) = 0 THEN Zero
    ELSE Div(calculateHistoricalLTV_reduce(customerRevenues, Zero),
             Num(Len(customerRevenues)))

(***************************************************************************)
(* The calculate* methods of class LTVCalculator.                          *)
(***************************************************************************)
\* a week counted as a quarter of a month in the method's copy of the switch
LTVCalculator_calculateMRR_step_fourWeekMonth(total, sub) ==
    CASE sub.interval = "month" -> Add(total, sub.amount)
      [] sub.interval = "year"  -> Add(total, Div(sub.amount, Num(12)))
      [] sub.interval = "week"  -> Add(total, Mul(sub.amount, Num(4)))
      [] sub.interval = "day"   -> Add(total, Div(Mul(sub.amount, Num(365)), Num(12)))
      [] OTHER -> total

LTVCalculator_calculateMRR_step(total, sub) ==
    CASE sub.interval = "month" -> Add(total, sub.amount)
      [] sub.interval = "year"  -> Add(total, Div(sub.amount, Num(12)))
      [] sub.interval = "week"  -> Add(total, Div(Mul(sub.amount, Num(52)), Num(12)))
      [] sub.interval = "day"   -> Add(total, Div(Mul(sub.amount, Num(365)), Num(12)))
      [] OTHER -> total

RECURSIVE LTVCalculator_calculateMRR_reduce(_, _)
LTVCalculator_calculateMRR_reduce(subscriptions, total) ==
    IF subscriptions = <<>> THEN total
    ELSE LTVCalculator_calculateMRR_reduce(
             Tail(subscriptions),
             LTVCalculator_calculateMRR_step(total, Head(subscriptions)))

LTVCalculator_calculateMRR(self, subscriptions) ==
    [self |-> self, ret |-> LTVCalculator_calculateMRR_reduce(subscriptions, Zero)]

LTVCalculator_calculateARR(self, subscriptions) ==
    [self |-> self,
     ret |-> Mul(LTVCalculator_calculateMRR(self, subscriptions).ret, Num(12))]

LTVCalculator_calculateCustomerChurnRate(self, in) ==
    [self |-> self,
     ret |-> IF in.startCustomers = Zero THEN Zero
             ELSE Mul(Div(in.churnedCustomers, in.startCustomers), Num(100))]

LTVCalculator_calculateRevenueChurnRate(self, in) ==
    LET contractionMRR == Default(in.contractionMRR, Zero)
    IN  [self |-> self,
         ret |-> IF in.startMRR = Zero THEN Zero
                 ELSE Mul(Div(Add(in.churnedMRR, contractionMRR), in.startMRR),
                          Num(100))]

LTVCalculator_calculateNRR(self, in) ==
    LET expansionMRR == Default(in.expansionMRR, Zero)
        contractionMRR == Default(in.contractionMRR, Zero)
        endMRR == Sub(Sub(Add(in.startMRR, expansionMRR), contractionMRR), in.churnedMRR)
    IN  [self |-> self,
         ret |-> IF in.startMRR = Zero THEN Zero
                 ELSE Mul(Div(endMRR, in.startMRR), Num(100))]

LTVCalculator_calculateGRR(self, in) ==
    LET contractionMRR == Default(in.contractionMRR, Zero)
        retainedMRR == Sub(Sub(in.startMRR, contractionMRR), in.churnedMRR)
    IN  [self |-> self,
         ret |-> IF in.startMRR = Zero THEN Zero
                 ELSE Mul(Div(retainedMRR, in.startMRR), Num(100))]

\* the caller's array sorted where it stands: cohorts.sort(...) without the
\* copy, the array that is returned being the array that was passed
LTVCalculator_calculateCohortRetention_arrays_inPlace(cohorts) ==
    [cohorts |-> SortByMonth(cohorts), sortedCohorts |-> SortByMonth(cohorts)]

\* the two arrays of [...cohorts].sort(...): the spread makes a new array of
\* the same elements, sort reorders that new array and returns it, the
\* caller's array is not written
LTVCalculator_calculateCohortRetention_arrays(cohorts) ==
    LET spread == [cohorts |-> cohorts, sortedCohorts |-> cohorts]
    IN  [spread EXCEPT !.sortedCohorts = SortByMonth(spread.sortedCohorts)]

LTVCalculator_calculateCohortRetention(self, cohorts) ==
    [self |-> self,
     ret |-> IF Len(cohorts) = 0 THEN <<>>
             ELSE LET sortedCohorts ==
                          LTVCalculator_calculateCohortRetention_arrays(cohorts).sortedCohorts
                      baseCustomers == sortedCohorts[1].customers
                  IN  IF baseCustomers = Zero
                      THEN [i \in 1..Len(sortedCohorts) |-> Zero]
                      ELSE [i \in 1..Len(sortedCohorts) |->
                                Mul(Div(sortedCohorts[i].customers, baseCustomers),
                                    Num(100))]]

RECURSIVE LTVCalculator_calculateHistoricalLTV_reduce(_, _)
LTVCalculator_calculateHistoricalLTV_reduce(customerRevenues, sum) ==
    IF customerRevenues = <<>> THEN sum
    ELSE LTVCalculator_calculateHistoricalLTV_reduce(Tail(customerRevenues),
                                                     Add(sum, Head(customerRevenues)))

LTVCalculator_calculateHistoricalLTV(self, customerRevenues) ==
    [self |-> self,
     ret |-> IF Len(customerRevenues) = 0 THEN Zero
             ELSE Div(LTVCalculator_calculateHistoricalLTV_reduce(customerRevenues, Zero),
                      Num(Len(customerRevenues)))]

(***************************************************************************)
(* Calls.  `call` is the last call observed and `ret` the value it         *)
(* returned.  `probe` is NoCall, and then every call is observed, or a     *)
(* call singled out in advance: then only its invocations are observed,    *)
(* and `first` is the value its first invocation returned (None before).   *)
(***************************************************************************)
Call(op, x, y, unit) == [op |-> op, x |-> x, y |-> y, unit |-> unit]

NoCall == Call("none", Undef, Undef, "undefined")

\* `input` is the record or array the caller passes to a calculate* function
Input(kind, value) == [kind |-> kind, value |-> value]

NoInput == Input("none", <<>>)

NumArgs == {Num(k) : k \in 0..MaxNum}
OptArgs == NumArgs \cup {Undef}
Types == {"percentage", "number"}
OptTypes == Types \cup {"undefined"}

Observed(c) == probe = NoCall \/ c = probe

\* a call of a method of the instance, with outcome res, that leaves the
\* caller holding the argument after; the call is recorded when seen
Record(c, res, after, seen) ==
    /\ arpu' = res.self.arpu
    /\ averageDuration' = res.self.averageDuration
    /\ ltv' = res.self.ltv
    /\ churnRate' = res.self.churnRate
    /\ call' = IF seen THEN c ELSE NoCall
    /\ ret' = IF seen THEN res.ret ELSE None
    /\ probe' = probe
    /\ first' = IF c = probe /\ first = None THEN res.ret ELSE first
    /\ input' = after

\* a call of a method of the instance, with outcome res
Invoke(c, res) == Record(c, res, input, Observed(c))

\* a call of a standalone function, returning r
Apply(c, r) == Invoke(c, [self |-> Self, ret |-> r])

CallSetARPU ==
    \E v \in NumArgs : Invoke(Call("setARPU", v, Undef, "undefined"), setARPU(Self, v))

CallCalcARPU ==
    \E s \in NumArgs, u \in NumArgs :
        Invoke(Call("calcARPU", s, u, "undefined"), calcARPU(Self, s, u))

CallGetARPU ==
    \E s \in OptArgs, u \in OptArgs :
        Invoke(Call("getARPU", s, u, "undefined"), getARPU(Self, s, u))

CallSetChurnRate ==
    \E v \in NumArgs :
        Invoke(Call("setChurnRate", v, Undef, "undefined"), setChurnRate(Self, v))

CallGetChurnRate ==
    Invoke(Call("getChurnRate", Undef, Undef, "undefined"), getChurnRate(Self))

CallCalcAverageDurationByChurnRate ==
    \E c \in OptArgs, t \in OptTypes :
        Invoke(Call("calcAverageDurationByChurnRate", c, Undef, t),
               calcAverageDurationByChurnRate(Self, c, t))

CallGetAverageDurationByChurnRate ==
    \E c \in OptArgs, t \in OptTypes :
        Invoke(Call("getAverageDurationByChurnRate", c, Undef, t),
               getAverageDurationByChurnRate(Self, c, t))

CallSetAverageDuration ==
    \E v \in NumArgs :
        Invoke(Call("setAverageDuration", v, Undef, "undefined"),
               setAverageDuration(Self, v))

CallCalcLTV ==
    \E d \in OptArgs, a \in OptArgs :
        Invoke(Call("calcLTV", d, a, "undefined"), calcLTV(Self, d, a))

CallGetLTV ==
    \E d \in OptArgs, a \in OptArgs :
        Invoke(Call("getLTV", d, a, "undefined"), getLTV(Self, d, a))

CallCalculateARPU ==
    \E s \in NumArgs, u \in NumArgs :
        Apply(Call("calculateARPU", s, u, "undefined"), calculateARPU(s, u))

CallCalculateAverageDuration ==
    \E c \in NumArgs, t \in OptTypes :
        Apply(Call("calculateAverageDuration", c, Undef, t),
              calculateAverageDuration(c, t))

CallCalculateLTV ==
    \E a \in NumArgs, d \in NumArgs :
        Apply(Call("calculateLTV", a, d, "undefined"), calculateLTV(a, d))

\* the state after new LTVCalculator()
InitFields ==
    /\ arpu = NewLTVCalculator.arpu
    /\ averageDuration = NewLTVCalculator.averageDuration
    /\ ltv = NewLTVCalculator.ltv
    /\ churnRate = NewLTVCalculator.churnRate
    /\ call = NoCall
    /\ ret = None
    /\ first = None

Init == InitFields /\ probe = NoCall /\ input = NoInput

Next ==
    \/ CallSetARPU
    \/ CallCalcARPU
    \/ CallGetARPU
    \/ CallSetChurnRate
    \/ CallGetChurnRate
    \/ CallCalcAverageDurationByChurnRate
    \/ CallGetAverageDurationByChurnRate
    \/ CallSetAverageDuration
    \/ CallCalcLTV
    \/ CallGetLTV
    \/ CallCalculateARPU
    \/ CallCalculateAverageDuration
    \/ CallCalculateLTV

\* the formula entry points, called with the formula's inputs
ProbeCalls ==
    {Call("getARPU", s, u, "undefined") : s \in NumArgs, u \in NumArgs}
    \cup {Call("getAverageDurationByChurnRate", c, Undef, t) : c \in NumArgs, t \in OptTypes}
    \cup {Call("getLTV", d, a, "undefined") : d \in NumArgs, a \in NumArgs}
    \cup {Call("calculateARPU", s, u, "undefined") : s \in NumArgs, u \in NumArgs}
    \cup {Call("calculateAverageDuration", c, Undef, t) : c \in NumArgs, t \in OptTypes}
    \cup {Call("calculateLTV", a, d, "undefined") : a \in NumArgs, d \in NumArgs}

InitTwice == InitFields /\ probe \in ProbeCalls /\ input = NoInput

\* one LTVCalculator instance, its methods and the ARPU / average duration /
\* LTV functions called in any order with any arguments
Spec == Init /\ [][Next]_vars

\* the same, with one formula call singled out and its first result remembered
SpecTwice == InitTwice /\ [][Next]_vars

(***************************************************************************)
(* The calculate* functions and methods, each applied once to an input     *)
(* drawn from the bounded input sets.                                      *)
(***************************************************************************)
SeqsUpTo(S, n) == UNION {[1..k -> S] : k \in 0..n}

Amounts == {Num(k) : k \in 0..MaxAmount}
OptAmounts == Amounts \cup {Undef}

\* the four SubscriptionInterval tags and one that is none of them
Intervals == {"month", "year", "week", "day", "quarter"}

Subscriptions == [amount : {Num(k) : k \in 0..MaxPrice}, interval : Intervals]

CohortDataPoints == [month : {Num(k) : k \in 0..MaxMonth},
                     customers : {Num(k) : k \in 0..MaxCustomers}]

CustomerChurnInputs == [startCustomers : Amounts, churnedCustomers : Amounts]

RevenueChurnInputs == [startMRR : Amounts, churnedMRR : Amounts,
                       contractionMRR : OptAmounts]

NRRInputs == [startMRR : Amounts, newMRR : OptAmounts, expansionMRR : OptAmounts,
              contractionMRR : OptAmounts, churnedMRR : Amounts]

InitFormulas ==
    /\ InitFields
    /\ probe = NoCall
    /\ \/ \E v \in SeqsUpTo(Subscriptions, MaxSubs) : input = Input("subscriptions", v)
       \/ \E v \in SeqsUpTo(CohortDataPoints, MaxLen) : input = Input("cohorts", v)
       \/ \E v \in SeqsUpTo({Num(k) : k \in 0..MaxCustomers}, MaxLen) :
              input = Input("customerRevenues", v)
       \/ \E v \in CustomerChurnInputs : input = Input("customerChurn", v)
       \/ \E v \in RevenueChurnInputs : input = Input("revenueChurn", v)
       \/ \E v \in NRRInputs : input = Input("nrr", v)

\* the call op(input), not made yet, for an input of the given kind
Pending(kind) == call = NoCall /\ input.kind = kind

Op(op) == Call(op, Undef, Undef, "undefined")

CallCalculateMRR ==
    /\ Pending("subscriptions")
    /\ Apply(Op("calculateMRR"), calculateMRR(input.value))

CallCalculateARR ==
    /\ Pending("subscriptions")
    /\ Apply(Op("calculateARR"), calculateARR(input.value))

CallCalculateCustomerChurnRate ==
    /\ Pending("customerChurn")
    /\ Apply(Op("calculateCustomerChurnRate"), calculateCustomerChurnRate(input.value))

CallCalculateRevenueChurnRate ==
    /\ Pending("revenueChurn")
    /\ Apply(Op("calculateRevenueChurnRate"), calculateRevenueChurnRate(input.value))

CallCalculateNRR ==
    /\ Pending("nrr")
    /\ Apply(Op("calculateNRR"), calculateNRR(input.value))

CallCalculateGRR ==
    /\ Pending("nrr")
    /\ Apply(Op("calculateGRR"), calculateGRR(input.value))

CallCalculateCohortRetention ==
    /\ Pending("cohorts")
    /\ Apply(Op("calculateCohortRetention"), calculateCohortRetention(input.value))

CallCalculateHistoricalLTV ==
    /\ Pending("customerRevenues")
    /\ Apply(Op("calculateHistoricalLTV"), calculateHistoricalLTV(input.value))

MethodCalculateMRR ==
    /\ Pending("subscriptions")
    /\ Invoke(Op("LTVCalculator.calculateMRR"),
              LTVCalculator_calculateMRR(Self, input.value))

MethodCalculateARR ==
    /\ Pending("subscriptions")
    /\ Invoke(Op("LTVCalculator.calculateARR"),
              LTVCalculator_calculateARR(Self, input.value))

MethodCalculateCustomerChurnRate ==
    /\ Pending("customerChurn")
    /\ Invoke(Op("LTVCalculator.calculateCustomerChurnRate"),
              LTVCalculator_calculateCustomerChurnRate(Self, input.value))

MethodCalculateRevenueChurnRate ==
    /\ Pending("revenueChurn")
    /\ Invoke(Op("LTVCalculator.calculateRevenueChurnRate"),
              LTVCalculator_calculateRevenueChurnRate(Self, input.value))

MethodCalculateNRR ==
    /\ Pending("nrr")
    /\ Invoke(Op("LTVCalculator.calculateNRR"),
              LTVCalculator_calculateNRR(Self, input.value))

MethodCalculateGRR ==
    /\ Pending("nrr")
    /\ Invoke(Op("LTVCalculator.calculateGRR"),
              LTVCalculator_calculateGRR(Self, input.value))

MethodCalculateCohortRetention ==
    /\ Pending("cohorts")
    /\ Record(Op("LTVCalculator.calculateCohortRetention"),
              LTVCalculator_calculateCohortRetention(Self, input.value),
              Input("cohorts",
                    LTVCalculator_calculateCohortRetention_arrays(input.value).cohorts),
              Observed(Op("LTVCalculator.calculateCohortRetention")))

MethodCalculateHistoricalLTV ==
    /\ Pending("customerRevenues")
    /\ Invoke(Op("LTVCalculator.calculateHistoricalLTV"),
              LTVCalculator_calculateHistoricalLTV(Self, input.value))

NextFormulas ==
    \/ CallCalculateMRR
    \/ CallCalculateARR
    \/ CallCalculateCustomerChurnRate
    \/ CallCalculateRevenueChurnRate
    \/ CallCalculateNRR
    \/ CallCalculateGRR
    \/ CallCalculateCohortRetention
    \/ CallCalculateHistoricalLTV
    \/ MethodCalculateMRR
    \/ MethodCalculateARR
    \/ MethodCalculateCustomerChurnRate
    \/ MethodCalculateRevenueChurnRate
    \/ MethodCalculateNRR
    \/ MethodCalculateGRR
    \/ MethodCalculateCohortRetention
    \/ MethodCalculateHistoricalLTV

\* a calculate* function, or the method of the same name on a new instance,
\* applied to any input within the bounds
SpecFormulas == InitFormulas /\ [][NextFormulas]_vars

(***************************************************************************)
(* The calculate* methods called on an instance in any state its other     *)
(* methods can bring it to.  The calls that build the state are not        *)
(* recorded; the calculate* call is, with the argument as it was passed in *)
(* call.x and the argument as the caller holds it afterwards in input.     *)
(***************************************************************************)
ArgNums == {Num(k) : k \in 0..MaxArg}
OptArgNums == ArgNums \cup {Undef}

\* subscriptions of one price, at every interval
ArgSubscriptions ==
    SeqsUpTo([amount : {Num(MaxArg)}, interval : Intervals], MaxArgLen)

\* cohorts of a business that has one customer more each month
ArgCohorts ==
    SeqsUpTo({[month |-> Num(k), customers |-> Num(k + 1)] : k \in 0..MaxArg},
             MaxArgLen)

ArgCustomerRevenues == SeqsUpTo(ArgNums, MaxArgLen)

ArgCustomerChurn == [startCustomers : ArgNums, churnedCustomers : ArgNums]

ArgRevenueChurn == [startMRR : ArgNums, churnedMRR : ArgNums,
                    contractionMRR : OptArgNums]

\* NRRInput with its three optional fields all left out or all the same
ArgNRR ==
    {[startMRR |-> s, newMRR |-> o, expansionMRR |-> o, contractionMRR |-> o,
      churnedMRR |-> c] : s \in ArgNums, c \in ArgNums, o \in OptArgNums}

\* stands in probe for the calculate* methods, the only calls recorded
Calculations == Call("LTVCalculator.calculate*", Undef, Undef, "undefined")

InitMethods ==
    /\ InitFields
    /\ probe = Calculations
    /\ input = NoInput

\* a calculate* method called with v, the caller holding after afterwards
OnInstance(name, kind, v, res, after) ==
    /\ call = NoCall
    /\ Record(Call("LTVCalculator." \o name, Input(kind, v), Undef, "undefined"),
              res, Input(kind, after), TRUE)

InstanceCalculateMRR ==
    \E v \in ArgSubscriptions :
        OnInstance("calculateMRR", "subscriptions", v,
                   LTVCalculator_calculateMRR(Self, v), v)

InstanceCalculateARR ==
    \E v \in ArgSubscriptions :
        OnInstance("calculateARR", "subscriptions", v,
                   LTVCalculator_calculateARR(Self, v), v)

InstanceCalculateCustomerChurnRate ==
    \E v \in ArgCustomerChurn :
        OnInstance("calculateCustomerChurnRate", "customerChurn", v,
                   LTVCalculator_calculateCustomerChurnRate(Self, v), v)

InstanceCalculateRevenueChurnRate ==
    \E v \in ArgRevenueChurn :
        OnInstance("calculateRevenueChurnRate", "revenueChurn", v,
                   LTVCalculator_calculateRevenueChurnRate(Self, v), v)

InstanceCalculateNRR ==
    \E v \in ArgNRR :
        OnInstance("calculateNRR", "nrr", v, LTVCalculator_calculateNRR(Self, v), v)

InstanceCalculateGRR ==
    \E v \in ArgNRR :
        OnInstance("calculateGRR", "nrr", v, LTVCalculator_calculateGRR(Self, v), v)

InstanceCalculateCohortRetention ==
    \E v \in ArgCohorts :
        OnInstance("calculateCohortRetention", "cohorts", v,
                   LTVCalculator_calculateCohortRetention(Self, v),
                   LTVCalculator_calculateCohortRetention_arrays(v).cohorts)

InstanceCalculateHistoricalLTV ==
    \E v \in ArgCustomerRevenues :
        OnInstance("calculateHistoricalLTV", "customerRevenues", v,
                   LTVCalculator_calculateHistoricalLTV(Self, v), v)

\* the methods that set up the instance, until a calculate* method is called
BeforeCalculation(A) == call = NoCall /\ A

NextMethods ==
    \/ BeforeCalculation(CallSetARPU)
    \/ BeforeCalculation(CallCalcARPU)
    \/ BeforeCalculation(CallGetARPU)
    \/ BeforeCalculation(CallSetChurnRate)
    \/ BeforeCalculation(CallGetChurnRate)
    \/ BeforeCalculation(CallCalcAverageDurationByChurnRate)
    \/ BeforeCalculation(CallGetAverageDurationByChurnRate)
    \/ BeforeCalculation(CallSetAverageDuration)
    \/ BeforeCalculation(CallCalcLTV)
    \/ BeforeCalculation(CallGetLTV)
    \/ InstanceCalculateMRR
    \/ InstanceCalculateARR
    \/ InstanceCalculateCustomerChurnRate
    \/ InstanceCalculateRevenueChurnRate
    \/ InstanceCalculateNRR
    \/ InstanceCalculateGRR
    \/ InstanceCalculateCohortRetention
    \/ InstanceCalculateHistoricalLTV

\* an instance brought to any state by its other methods, then one call of a
\* calculate* method
SpecMethods == InitMethods /\ [][NextMethods]_vars

(***************************************************************************)
(* What the formulas are documented to return, for finite arguments.       *)
(***************************************************************************)
\* x / y for finite x and y
Quot(x, y) == Frac(x.n * y.d, x.d * y.n)

\* x * y for finite x and y
Prod(x, y) == Frac(x.n * y.n, x.d * y.d)

\* 1 / (rate / 100) for percentage (the default), 1 / rate otherwise
DurationOf(rate, unit) ==
    IF unit = "number" THEN Quot(Num(1), rate) ELSE Quot(Num(100), rate)

(***************************************************************************)
(* C1: every formula entry point, called twice with identical arguments,   *)
(* returns identical outputs, whatever other operations of the instance    *)
(* run before or between the two calls.  Checked under SpecTwice: whenever *)
(* the probed call has just been made and had been made before, it returns *)
(* what its first invocation returned.                                     *)
(***************************************************************************)
C1_SameArgumentsSameResult ==
    (call = probe /\ first # None) => ret = first

(***************************************************************************)
(* C2: AverageDuration(churnRate, unit) is 1 / (churnRate / 100) for       *)
(* percentage (the default) and 1 / churnRate otherwise, Infinity for      *)
(* churnRate 0: for calculateAverageDuration, for                          *)
(* calcAverageDurationByChurnRate(churnRate, unit) followed by             *)
(* getAverageDurationByChurnRate(), and for the shorthand                  *)
(* getAverageDurationByChurnRate(churnRate, unit), in every reachable      *)
(* state of the instance.                                                  *)
(***************************************************************************)
C2_AverageDuration ==
    /\ call.op = "calculateAverageDuration"
          => ret = DurationOf(call.x, call.unit)
    /\ (call.op = "calcAverageDurationByChurnRate" /\ call.x # Undef)
          => /\ averageDuration = DurationOf(call.x, call.unit)
             /\ getAverageDurationByChurnRate(Self, Undef, "undefined").ret
                    = DurationOf(call.x, call.unit)
    /\ (call.op = "getAverageDurationByChurnRate" /\ call.x # Undef)
          => ret = DurationOf(call.x, call.unit)

(***************************************************************************)
(* C3: ARPU(sales, users) is sales / users, with no zero guard, through    *)
(* calculateARPU(sales, users), calcARPU(sales, users).getARPU() and the   *)
(* shorthand getARPU(sales, users), in every reachable state of the        *)
(* instance; the shorthand returns what calcARPU(sales, users).getARPU()   *)
(* returns.                                                                *)
(***************************************************************************)
C3_ARPU ==
    /\ call.op = "calculateARPU" => ret = Quot(call.x, call.y)
    /\ call.op = "calcARPU"
          => /\ arpu = Quot(call.x, call.y)
             /\ getARPU(Self, Undef, Undef).ret = Quot(call.x, call.y)
    /\ (call.op = "getARPU" /\ call.x # Undef /\ call.y # Undef)
          => /\ ret = Quot(call.x, call.y)
             /\ ret = getARPU(calcARPU(Self, call.x, call.y).self, Undef, Undef).ret

(***************************************************************************)
(* C4: LTV(arpu, averageDuration) is arpu * averageDuration: for           *)
(* calculateLTV, and for getLTV(averageDuration, arpu) with both arguments *)
(* in every reachable state of the instance; getLTV() returns the product  *)
(* of the instance's ARPU and average duration, so that                    *)
(* calcARPU(s, u).calcAverageDurationByChurnRate(c).getLTV() is            *)
(* (s / u) * (100 / c) from every reachable state.                         *)
(***************************************************************************)
C4_LTV ==
    /\ call.op = "calculateLTV" => ret = Prod(call.x, call.y)
    /\ (call.op = "getLTV" /\ call.x # Undef /\ call.y # Undef)
          => ret = Prod(call.x, call.y)
    /\ (call.op = "getLTV" /\ call.x = Undef /\ call.y = Undef)
          => ret = Mul(arpu, averageDuration)
    /\ \A s \in NumArgs, u \in NumArgs, c \in NumArgs :
          getLTV(calcAverageDurationByChurnRate(calcARPU(Self, s, u).self,
                                                c, "undefined").self,
                 Undef, Undef).ret
            = Mul(Quot(s, u), Quot(Num(100), c))

(***************************************************************************)
(* The calculate* call just made, by the function or by the method.        *)
(***************************************************************************)
Made(name) == call.op \in {name, "LTVCalculator." \o name}

\* what the function or method just called returns for another input v
Again(v) ==
    CASE call.op = "calculateNRR" -> calculateNRR(v)
      [] call.op = "LTVCalculator.calculateNRR" -> LTVCalculator_calculateNRR(Self, v).ret
      [] call.op = "calculateGRR" -> calculateGRR(v)
      [] call.op = "LTVCalculator.calculateGRR" -> LTVCalculator_calculateGRR(Self, v).ret
      [] call.op = "calculateCohortRetention" -> calculateCohortRetention(v)
      [] call.op = "LTVCalculator.calculateCohortRetention" ->
             LTVCalculator_calculateCohortRetention(Self, v).ret
      [] call.op = "calculateMRR" -> calculateMRR(v)
      [] call.op = "LTVCalculator.calculateMRR" -> LTVCalculator_calculateMRR(Self, v).ret

\* an optional integer field, 0 when omitted
Val(v) == IF v = Undef THEN 0 ELSE v.n

AllPerms ==
    [n \in 0..MaxLen |->
        {p \in [1..n -> 1..n] : \A i, j \in 1..n : i # j => p[i] # p[j]}]

Perms(n) == AllPerms[n]

\* p lists the indices of cohorts ascending by month, equal months in input order
StableOrder(cohorts, p) ==
    \A i, j \in 1..Len(cohorts) :
        i < j => \/ cohorts[p[i]].month.n < cohorts[p[j]].month.n
                 \/ /\ cohorts[p[i]].month.n = cohorts[p[j]].month.n
                    /\ p[i] < p[j]

C6_CohortRetention ==
    Made("calculateCohortRetention") =>
        LET cohorts == input.value
            n == Len(cohorts)
        IN  /\ n = 0 => ret = <<>>
            /\ n > 0 =>
                 \E p \in Perms(n) :
                    /\ StableOrder(cohorts, p)
                    /\ Len(ret) = n
                    /\ LET base == cohorts[p[1]].customers.n
                       IN  /\ \A i \in 1..n :
                                ret[i] = IF base = 0 THEN Zero
                                         ELSE Frac(cohorts[p[i]].customers.n * 100, base)
                           /\ base # 0 => ret[1] = Num(100)

\* three cohorts given out of order, two of them of the same month with
\* different customers, and a nonzero base
C6_Witness ==
    /\ call.op = "calculateCohortRetention"
    /\ Len(input.value) = 3
    /\ input.value[1].month = Num(1)
    /\ input.value[2].month = Num(0) /\ input.value[2].customers = Num(2)
    /\ input.value[3].month = Num(0) /\ input.value[3].customers = Num(1)
    /\ ret[1] = Num(100) /\ ret[2] = Num(50)

(***************************************************************************)
(* C7, as claimed: CohortRetention returns the same sequence for every     *)
(* reordering of the same list of cohort data points.                      *)
(***************************************************************************)
Reorder(cohorts, p) == [i \in 1..Len(cohorts) |-> cohorts[p[i]]]

C7_AnyOrder ==
    Made("calculateCohortRetention") =>
        \A p \in Perms(Len(input.value)) : Again(Reorder(input.value, p)) = ret

(***************************************************************************)
(* C7, amended: CohortRetention returns the same sequence for every        *)
(* reordering of the list that keeps cohorts of equal month in their       *)
(* relative order; so for every reordering when the months are pairwise    *)
(* distinct.                                                               *)
(***************************************************************************)
\* the reordering p leaves cohorts of equal month in their relative order
KeepsTies(cohorts, p) ==
    \A k, l \in 1..Len(cohorts) :
        (k < l /\ cohorts[p[k]].month = cohorts[p[l]].month) => p[k] < p[l]

C7_OrderOfDistinctMonths ==
    Made("calculateCohortRetention") =>
        \A p \in Perms(Len(input.value)) :
            KeepsTies(input.value, p) => Again(Reorder(input.value, p)) = ret

\* three cohorts of three different months, given latest first
C7_Witness ==
    /\ call.op = "LTVCalculator.calculateCohortRetention"
    /\ Len(input.value) = 3
    /\ input.value[1].month = Num(2) /\ input.value[1].customers = Num(1)
    /\ input.value[2].month = Num(0) /\ input.value[2].customers = Num(2)
    /\ input.value[3].month = Num(1)
    /\ ret[1] = Num(100) /\ ret[3] = Num(50)

(***************************************************************************)
(* C8: for startMRR # 0, NRR is                                            *)
(* ((startMRR + expansionMRR - contractionMRR - churnedMRR) / startMRR)    *)
(* * 100, an omitted optional field counting as 0, and is the same for     *)
(* every value of newMRR, supplied or omitted.                             *)
(***************************************************************************)
C8_NRR ==
    (Made("calculateNRR") /\ input.value.startMRR # Zero) =>
        LET in == input.value
        IN  /\ ret = Frac((in.startMRR.n + Val(in.expansionMRR) - Val(in.contractionMRR)
                             - in.churnedMRR.n) * 100,
                          in.startMRR.n)
            /\ \A x \in OptAmounts : Again([in EXCEPT !.newMRR = x]) = ret

\* NRR with expansion above the losses, newMRR supplied, contraction omitted
C8_Witness ==
    /\ call.op = "calculateNRR"
    /\ input.value.startMRR = Num(2)
    /\ input.value.expansionMRR = Num(2)
    /\ input.value.contractionMRR = Undef
    /\ input.value.churnedMRR = Num(1)
    /\ input.value.newMRR = Num(2)
    /\ ret = Num(150)

(***************************************************************************)
(* C9: for startMRR # 0, GRR is                                            *)
(* ((startMRR - contractionMRR - churnedMRR) / startMRR) * 100, an omitted *)
(* contractionMRR counting as 0, and is the same for every value of        *)
(* expansionMRR and newMRR, supplied or omitted.                           *)
(***************************************************************************)
C9_GRR ==
    (Made("calculateGRR") /\ input.value.startMRR # Zero) =>
        LET in == input.value
        IN  /\ ret = Frac((in.startMRR.n - Val(in.contractionMRR) - in.churnedMRR.n) * 100,
                          in.startMRR.n)
            /\ \A x \in OptAmounts, y \in OptAmounts :
                  Again([in EXCEPT !.expansionMRR = x, !.newMRR = y]) = ret

\* GRR with expansion and newMRR supplied, and contraction and churn both nonzero
C9_Witness ==
    /\ call.op = "calculateGRR"
    /\ input.value.startMRR = Num(2)
    /\ input.value.expansionMRR = Num(2)
    /\ input.value.newMRR = Num(1)
    /\ input.value.contractionMRR = Num(1)
    /\ input.value.churnedMRR = Num(1)
    /\ ret = Zero

(***************************************************************************)
(* C10: MRR is the sum over the subscriptions of amount for month,         *)
(* amount / 12 for year, amount * 52 / 12 for week, amount * 365 / 12 for  *)
(* day and 0 for any other interval tag; MRR of the empty list is 0; ARR   *)
(* is MRR * 12 for every list.                                             *)
(***************************************************************************)
\* twelve times the monthly contribution of a subscription
Twelfths(sub) ==
    CASE sub.interval = "month" -> 12 * sub.amount.n
      [] sub.interval = "year"  -> sub.amount.n
      [] sub.interval = "week"  -> 52 * sub.amount.n
      [] sub.interval = "day"   -> 365 * sub.amount.n
      [] OTHER -> 0

RECURSIVE SumTwelfths(_)
SumTwelfths(subscriptions) ==
    IF subscriptions = <<>> THEN 0
    ELSE Twelfths(Head(subscriptions)) + SumTwelfths(Tail(subscriptions))

C10_MRR ==
    /\ Made("calculateMRR") =>
          /\ ret = Frac(SumTwelfths(input.value), 12)
          /\ input.value = <<>> => ret = Zero
    /\ Made("calculateARR") =>
          /\ ret = Num(SumTwelfths(input.value))
          /\ call.op = "calculateARR" => ret = Mul(calculateMRR(input.value), Num(12))
          /\ call.op = "LTVCalculator.calculateARR"
                => ret = Mul(LTVCalculator_calculateMRR(Self, input.value).ret, Num(12))

\* MRR of a weekly, a daily and an unknown-interval subscription
C10_Witness ==
    /\ call.op = "calculateMRR"
    /\ Len(input.value) = 3
    /\ input.value[1] = [amount |-> Num(1), interval |-> "week"]
    /\ input.value[2] = [amount |-> Num(2), interval |-> "quarter"]
    /\ input.value[3] = [amount |-> Num(1), interval |-> "day"]
    /\ ret = Frac(417, 12)

(***************************************************************************)
(* C11: for a nonzero denominator, CustomerChurnRate is                    *)
(* (churnedCustomers / startCustomers) * 100 and RevenueChurnRate is       *)
(* ((churnedMRR + contractionMRR) / startMRR) * 100, an omitted            *)
(* contractionMRR counting as 0.                                           *)
(***************************************************************************)
C11_ChurnRates ==
    /\ (Made("calculateCustomerChurnRate") /\ input.value.startCustomers # Zero)
          => ret = Frac(input.value.churnedCustomers.n * 100,
                        input.value.startCustomers.n)
    /\ (Made("calculateRevenueChurnRate") /\ input.value.startMRR # Zero)
          => ret = Frac((input.value.churnedMRR.n + Val(input.value.contractionMRR)) * 100,
                        input.value.startMRR.n)

\* revenue churn with churn and contraction both nonzero: (1 + 2) / 2 * 100
C11_Witness ==
    /\ call.op = "calculateRevenueChurnRate"
    /\ input.value.startMRR = Num(2)
    /\ input.value.churnedMRR = Num(1)
    /\ input.value.contractionMRR = Num(2)
    /\ ret = Num(150)

(***************************************************************************)
(* C12: HistoricalLTV returns 0 for the empty sequence and otherwise the   *)
(* arithmetic mean, sum divided by length; for a one-element sequence it   *)
(* returns that element.                                                   *)
(***************************************************************************)
RECURSIVE SumOf(_)
SumOf(revenues) ==
    IF revenues = <<>> THEN 0 ELSE Head(revenues).n + SumOf(Tail(revenues))

C12_HistoricalLTV ==
    Made("calculateHistoricalLTV") =>
        /\ input.value = <<>> => ret = Zero
        /\ input.value # <<>> => ret = Frac(SumOf(input.value), Len(input.value))
        /\ Len(input.value) = 1 => ret = input.value[1]

\* the mean of three revenues that is not a whole number: (2 + 1 + 2) / 3
C12_Witness ==
    /\ call.op = "calculateHistoricalLTV"
    /\ input.value = <<Num(2), Num(1), Num(2)>>
    /\ ret = Frac(5, 3)

(***************************************************************************)
(* Calls of the calculate* methods of an instance that has been used.      *)
(***************************************************************************)
CalculateMethods ==
    {"LTVCalculator." \o name :
        name \in {"calculateMRR", "calculateARR", "calculateCustomerChurnRate",
                  "calculateRevenueChurnRate", "calculateNRR", "calculateGRR",
                  "calculateCohortRetention", "calculateHistoricalLTV"}}

\* the instance has been set up: no field has the value the constructor gave it
Used ==
    /\ arpu # Zero
    /\ churnRate # Zero
    /\ averageDuration # Zero
    /\ ltv # Zero

(***************************************************************************)
(* C13: a call of a calculate* method of LTVCalculator leaves the fields   *)
(* arpu, averageDuration, ltv and churnRate as they were, and leaves the   *)
(* argument as the caller passed it: calculateCohortRetention sorts a      *)
(* copy, so the caller's array keeps its order and its contents.           *)
(***************************************************************************)
C13_Frame ==
    [][call'.op \in CalculateMethods =>
          /\ arpu' = arpu
          /\ averageDuration' = averageDuration
          /\ ltv' = ltv
          /\ churnRate' = churnRate
          /\ input' = call'.x]_vars

\* calculateCohortRetention on a used instance, passed month 1 before month 0:
\* the result is in month order and the caller's array is not
C13_Witness ==
    /\ call.op = "LTVCalculator.calculateCohortRetention"
    /\ Used
    /\ call.x.value = <<[month |-> Num(1), customers |-> Num(2)],
                        [month |-> Num(0), customers |-> Num(1)]>>
    /\ ret = <<Num(100), Num(200)>>
    /\ input.value = call.x.value

(***************************************************************************)
(* C14: each calculate* method of LTVCalculator, called on an instance in  *)
(* any state its methods can bring it to, returns what the standalone      *)
(* function of the same name returns for the same input.                   *)
(***************************************************************************)
Standalone(op, in) ==
    CASE op = "LTVCalculator.calculateMRR" -> calculateMRR(in)
      [] op = "LTVCalculator.calculateARR" -> calculateARR(in)
      [] op = "LTVCalculator.calculateCustomerChurnRate" -> calculateCustomerChurnRate(in)
      [] op = "LTVCalculator.calculateRevenueChurnRate" -> calculateRevenueChurnRate(in)
      [] op = "LTVCalculator.calculateNRR" -> calculateNRR(in)
      [] op = "LTVCalculator.calculateGRR" -> calculateGRR(in)
      [] op = "LTVCalculator.calculateCohortRetention" -> calculateCohortRetention(in)
      [] op = "LTVCalculator.calculateHistoricalLTV" -> calculateHistoricalLTV(in)

C14_MethodIsFunction ==
    call.op \in CalculateMethods => ret = Standalone(call.op, call.x.value)

\* calculateMRR on a used instance, a weekly and a yearly subscription of 1:
\* 52 / 12 + 1 / 12
C14_Witness ==
    /\ call.op = "LTVCalculator.calculateMRR"
    /\ Used
    /\ call.x.value = <<[amount |-> Num(1), interval |-> "week"],
                        [amount |-> Num(1), interval |-> "year"]>>
    /\ ret = Frac(53, 12)

====
